---- MODULE Spec2Model ----
(***************************************************************************)
(* Model of pkg/config/loader.go (sonobuoy): LoadConfig, loadAllPlugins    *)
(* and LoadClient.  One run of the process is modelled: the environment,   *)
(* the files on disk, the defaults, the build version and the outcome of   *)
(* plugin discovery are inputs fixed in Init (variable in); the actions    *)
(* are the numbered steps of LoadConfig and the loops of loadAllPlugins.   *)
(*                                                                         *)
(* A configuration document and the process environment are functions      *)
(* whose DOMAIN is the set of keys that are present, so that "key present" *)
(* and "key present with an empty value" are different inputs.  The keys   *)
(* of the nested Aggregation section are written flat.                     *)
(***************************************************************************)
EXTENDS Integers, Sequences, FiniteSets, TLC

VARIABLES pc, in, viper, cfg, plugins, i, j, ret, stages, discoverCall, client

vars == <<pc, in, viper, cfg, plugins, i, j, ret, stages, discoverCall, client>>

(***************************** bounds **************************************)
MaxRes == 2
MaxSel == 2
MaxDisc == 2

(***************************** helpers *************************************)
NoErr == "nil"
NilCfg == "nil"
CfgPtr == "cfg"
NoKeys == [k \in {} |-> ""]

SeqsUpTo(S, n) == UNION {[1..k -> S] : k \in 0..n}

IsPrefix(s, t) == Len(s) <= Len(t) /\ \A k \in 1..Len(s) : s[k] = t[k]

(* os.LookupEnv / os.Getenv *)
LookupEnvOk(env, k) == k \in DOMAIN env
LookupEnvVal(env, k) == IF k \in DOMAIN env THEN env[k] ELSE ""
Getenv(env, k) == LookupEnvVal(env, k)

(* JSON scalars whose type decides whether Unmarshal succeeds *)
JNum(n) == [t |-> "number", v |-> n]
JStr(s) == [t |-> "string", v |-> s]

(* fmt.Sprintf("%v:%d", host, port) *)
SprintfHostPort(host, port) == host \o ":" \o ToString(port)

(* fmt.Errorf("Configured plugin %v does not exist", sel.Name) *)
PluginNotFoundErr(name) == "Configured plugin " \o name \o " does not exist"

(***************************** collaborators *******************************)
(* config.NewWithDefaults: the baseline Configuration.  The default        *)
(* resource list is an input so that every default list is covered.        *)
DefaultResultsDir == "/tmp/sonobuoy"
DefaultBindPort == 8080
NewWithDefaults(defaultResources) ==
  [ Kubeconfig       |-> "",
    ResultsDir       |-> DefaultResultsDir,
    Resources        |-> defaultResources,
    AdvertiseAddress |-> "",
    BindPort         |-> DefaultBindPort,
    Version          |-> "",
    PluginNamespace  |-> "heptio-sonobuoy",
    PluginSearchPath |-> <<"./plugins.d">>,
    PluginSelections |-> <<>>,
    LoadedPlugins    |-> {} ]

(* plugin.Interface: a handle exposes GetName() *)
Handle(n) == [name |-> n]
GetName(p) == p.name

(* Config.addPlugin: loadedPlugins is keyed by name *)
addPlugin(c, p) ==
  [c EXCEPT !.LoadedPlugins = {q \in @ : GetName(q) # GetName(p)} \cup {p}]

(***************************** viper ***************************************)
SearchPaths == <<"/etc/sonobuoy/config.json", "./config.json">>

(* lines 39-48: the config file is the one SONOBUOY_CONFIG names when it   *)
(* is non-empty, else the first of the search paths that exists            *)
ForcedConfigFile(env) == Getenv(env, "SONOBUOY_CONFIG")

ExistingSearchPaths(files) == {k \in 1..Len(SearchPaths) : SearchPaths[k] \in DOMAIN files}

ConfigFileToRead(v, files) ==
  IF v.configFile # "" THEN v.configFile
  ELSE IF ExistingSearchPaths(files) = {} THEN ""
  ELSE SearchPaths[CHOOSE k \in ExistingSearchPaths(files) :
                     \A m \in ExistingSearchPaths(files) : k <= m]

ReadInConfigOk(v, files) == ConfigFileToRead(v, files) \in DOMAIN files

ReadErr(v, files) == "ConfigReadError"

(* viper.IsSet / viper.Get for a key of the config file *)
IsSet(v, k) == k \in DOMAIN v.config

(* viper.GetString("kubeconfig"): the key is bound to the environment      *)
(* (BindEnv, line 44) and has the default "" (SetDefault, line 43).  Viper *)
(* ranks env > config file > default and treats an environment variable    *)
(* whose value is empty as unset.                                          *)
KubeconfigDefault == ""
GetStringKubeconfig(v, env) ==
  IF Getenv(env, "KUBECONFIG") # "" THEN env["KUBECONFIG"]
  ELSE IF IsSet(v, "Kubeconfig") THEN v.config["Kubeconfig"]
  ELSE KubeconfigDefault

(* viper.GetStringSlice("Resources") on a list of strings *)
GetStringSlice(v, k) == v.config[k]

(* the decoder fills an existing slice index by index: the elements of the *)
(* document overwrite the first ones, the rest of the target survives      *)
MergeSlice(old, new) ==
  [k \in 1..(IF Len(new) > Len(old) THEN Len(new) ELSE Len(old)) |->
     IF k <= Len(new) THEN new[k] ELSE old[k]]

(* viper.Unmarshal fails on a value whose type does not fit the field *)
UnmarshalOk(v) == IsSet(v, "BindPort") => v.config["BindPort"].t = "number"

ParseErr(v) == "ConfigParseError"

Field(v, c, k) == IF IsSet(v, k) THEN v.config[k] ELSE c[k]

UnmarshalInto(v, env, c) ==
  [c EXCEPT
     !.Kubeconfig       = GetStringKubeconfig(v, env),
     !.ResultsDir       = Field(v, c, "ResultsDir"),
     !.Resources        = IF IsSet(v, "Resources")
                            THEN MergeSlice(@, v.config["Resources"]) ELSE @,
     !.AdvertiseAddress = Field(v, c, "AdvertiseAddress"),
     !.BindPort         = IF IsSet(v, "BindPort") THEN v.config["BindPort"].v ELSE @,
     !.Version          = Field(v, c, "Version"),
     !.PluginSelections = Field(v, c, "PluginSelections")]

(***************************** LoadConfig, steps 3 and 4 *******************)
(* variant: the hostname is tried before the advertise-IP variable *)
DeriveHostnameFirst(c, env, hostname) ==
  IF c.AdvertiseAddress = ""
    THEN IF hostname # ""
           THEN SprintfHostPort(hostname, c.BindPort)
           ELSE IF LookupEnvOk(env, "SONOBUOY_ADVERTISE_IP")
                  THEN SprintfHostPort(LookupEnvVal(env, "SONOBUOY_ADVERTISE_IP"), c.BindPort)
                  ELSE c.AdvertiseAddress
    ELSE c.AdvertiseAddress

(* lines 61-70: the address pods dial for aggregation *)
DeriveAdvertiseAddress(c, env, hostname) ==
  IF c.AdvertiseAddress = ""
    THEN IF LookupEnvOk(env, "SONOBUOY_ADVERTISE_IP")
           THEN SprintfHostPort(LookupEnvVal(env, "SONOBUOY_ADVERTISE_IP"), c.BindPort)
           ELSE IF hostname # ""
                  THEN SprintfHostPort(hostname, c.BindPort)
                  ELSE c.AdvertiseAddress
    ELSE c.AdvertiseAddress

(* variant: the build version only fills a version left empty *)
SetVersionIfEmpty(c, buildVersion) ==
  IF c.Version = "" THEN [c EXCEPT !.Version = buildVersion] ELSE c

(* line 73 *)
SetVersion(c, buildVersion) == [c EXCEPT !.Version = buildVersion]

(* variant: RESULTS_DIR is not consulted *)
ApplyResultsDirIgnoringEnv(c, env) == c

(* lines 76-78 *)
ApplyResultsDir(c, env) ==
  IF LookupEnvOk(env, "RESULTS_DIR")
    THEN [c EXCEPT !.ResultsDir = LookupEnvVal(env, "RESULTS_DIR")]
    ELSE c

(* variant: the list Unmarshal merged is kept *)
ApplyResourcesKeepMerged(c, v) == c

(* lines 85-87 *)
ApplyResources(c, v) ==
  IF IsSet(v, "Resources")
    THEN [c EXCEPT !.Resources = GetStringSlice(v, "Resources")]
    ELSE c

(***************************** loadAllPlugins ******************************)
(* variant: names are compared without regard to case *)
Lower(n) == IF n = "A" THEN "a" ELSE n
FoundIgnoringCase(ps, sel) == \E k \in 1..Len(ps) : Lower(GetName(ps[k])) = Lower(sel.Name)

(* lines 134-139: the scan of the discovered plugins for one selection *)
Found(ps, sel) == \E k \in 1..Len(ps) : GetName(ps[k]) = sel.Name

(* the error a failed stage hands to the caller of LoadConfig *)
ReturnErr(e) == e

(***************************** inputs **************************************)
BuildVersion == "v0.9.0"
AltConfigFile == "/alt/config.json"
ResNames == {"pods", "nodes"}
SelNames == {"a", "A", "b"}
DiscNames == {"a", "b", "c"}

Frag(k, vals) == {NoKeys} \cup {k :> x : x \in vals}

(* where the document d may lie on disk, and which file is forced *)
Layouts(d) ==
  { SearchPaths[1] :> d @@ SearchPaths[2] :> NoKeys,
    SearchPaths[2] :> d,
    AltConfigFile :> d,
    SearchPaths[1] :> NoKeys @@ AltConfigFile :> d }

ConfigEnv == Frag("SONOBUOY_CONFIG", {AltConfigFile})

Malformed == "BindPort" :> JStr("oops")

DiscoveredLists ==
  {s \in SeqsUpTo({Handle(n) : n \in DiscNames}, MaxDisc) :
     \A a, b \in DOMAIN s : GetName(s[a]) = GetName(s[b]) => a = b}

DiscoveryErr == "DiscoveryError"

DiscBase == { [err |-> NoErr, plugins |-> <<>>],
              [err |-> NoErr, plugins |-> <<Handle("a")>>],
              [err |-> DiscoveryErr, plugins |-> <<>>] }

DiscAll == {[err |-> NoErr, plugins |-> ps] : ps \in DiscoveredLists}
             \cup {[err |-> DiscoveryErr, plugins |-> <<>>]}

Inputs(Docs, Envs, Hosts, DefRes, Versions, Discs) ==
  { [ env |-> e @@ ce, hostname |-> h, files |-> fs, defaultResources |-> dr,
      buildVersion |-> bv, discovery |-> dc ] :
      e \in Envs, ce \in ConfigEnv, h \in Hosts, dr \in DefRes, bv \in Versions,
      dc \in Discs, fs \in UNION {Layouts(d) : d \in Docs} }

(* the resource list of the document against the default list *)
InputsRes ==
  Inputs({r @@ m : r \in Frag("Resources", SeqsUpTo(ResNames, MaxRes)),
                   m \in {NoKeys, Malformed}},
         {NoKeys}, {"node1"}, SeqsUpTo(ResNames, MaxRes), {BuildVersion}, DiscBase)

(* the selections against the discovered plugins *)
InputsPlug ==
  Inputs({s @@ m : s \in Frag("PluginSelections",
                              SeqsUpTo({[Name |-> n] : n \in SelNames}, MaxSel)),
                   m \in {NoKeys, Malformed}},
         {NoKeys}, {"node1"}, {<<"pods">>}, {BuildVersion}, DiscAll)

(* the advertise address: document, bind port, environment, hostname *)
InputsAddr ==
  Inputs({a @@ p : a \in Frag("AdvertiseAddress", {"", "1.2.3.4:9999"}),
                   p \in Frag("BindPort", {JNum(9090), JStr("oops")})},
         Frag("SONOBUOY_ADVERTISE_IP", {"", "10.0.0.5"}), {"", "node1"},
         {<<"pods">>}, {BuildVersion}, DiscBase)

(* the layered keys: environment, document, default, and the version *)
InputsMerge ==
  Inputs({r @@ k @@ w @@ m : r \in Frag("ResultsDir", {"/doc/results"}),
                             k \in Frag("Kubeconfig", {"/doc/kubeconfig"}),
                             w \in Frag("Version", {"v-from-document"}),
                             m \in {NoKeys, Malformed}},
         {r @@ k : r \in Frag("RESULTS_DIR", {"", "/env/results"}),
                   k \in Frag("KUBECONFIG", {"", "/env/kubeconfig"})},
         {"node1"}, {<<"pods">>}, {BuildVersion, "v0.10.0"}, DiscBase)

(***************************** state machine *******************************)
StageOrder == <<"read", "unmarshal", "advertise", "settings", "discover", "validate", "register">>

(* lines 36-48: the defaults are loaded and viper is told which file to read *)
Init ==
  /\ in \in InputsRes \cup InputsPlug \cup InputsAddr \cup InputsMerge
  /\ pc = "readInConfig"
  /\ viper = [configFile |-> ForcedConfigFile(in.env), config |-> NoKeys]
  /\ cfg = NewWithDefaults(in.defaultResources)
  /\ plugins = <<>>
  /\ i = 1
  /\ j = 1
  /\ ret = [cfg |-> NilCfg, err |-> NoErr]
  /\ stages = <<>>
  /\ discoverCall = <<>>
  /\ client = "none"

Return(c, e) ==
  /\ ret' = [cfg |-> c, err |-> ReturnErr(e)]
  /\ pc' = "returned"

(* variant: a failed read is ignored and the next step runs on an empty document *)
ReadInConfigIgnoringError ==
  /\ pc = "readInConfig"
  /\ stages' = Append(stages, "read")
  /\ viper' = IF ReadInConfigOk(viper, in.files)
                THEN [viper EXCEPT !.config = in.files[ConfigFileToRead(viper, in.files)]]
                ELSE viper
  /\ pc' = "unmarshal"
  /\ UNCHANGED <<in, cfg, plugins, i, j, ret, discoverCall, client>>

(* lines 51-53 *)
ReadInConfig ==
  /\ pc = "readInConfig"
  /\ stages' = Append(stages, "read")
  /\ \/ /\ ReadInConfigOk(viper, in.files)
        /\ viper' = [viper EXCEPT !.config = in.files[ConfigFileToRead(viper, in.files)]]
        /\ pc' = "unmarshal"
        /\ UNCHANGED ret
     \/ /\ ~ReadInConfigOk(viper, in.files)
        /\ Return(NilCfg, ReadErr(viper, in.files))
        /\ UNCHANGED viper
  /\ UNCHANGED <<in, cfg, plugins, i, j, discoverCall, client>>

(* lines 56-58 *)
Unmarshal ==
  /\ pc = "unmarshal"
  /\ stages' = Append(stages, "unmarshal")
  /\ \/ /\ UnmarshalOk(viper)
        /\ cfg' = UnmarshalInto(viper, in.env, cfg)
        /\ pc' = "advertise"
        /\ UNCHANGED ret
     \/ /\ ~UnmarshalOk(viper)
        /\ Return(NilCfg, ParseErr(viper))
        /\ UNCHANGED cfg
  /\ UNCHANGED <<in, viper, plugins, i, j, discoverCall, client>>

(* lines 61-70 *)
Advertise ==
  /\ pc = "advertise"
  /\ stages' = Append(stages, "advertise")
  /\ cfg' = [cfg EXCEPT !.AdvertiseAddress = DeriveAdvertiseAddress(cfg, in.env, in.hostname)]
  /\ pc' = "settings"
  /\ UNCHANGED <<in, viper, plugins, i, j, ret, discoverCall, client>>

(* lines 73-87 *)
Settings ==
  /\ pc = "settings"
  /\ stages' = Append(stages, "settings")
  /\ cfg' = ApplyResources(ApplyResultsDir(SetVersion(cfg, in.buildVersion), in.env), viper)
  /\ pc' = "discover"
  /\ UNCHANGED <<in, viper, plugins, i, j, ret, discoverCall, client>>

(* lines 90, 127-130: pluginloader.LoadAllPlugins *)
Discover ==
  /\ pc = "discover"
  /\ stages' = Append(stages, "discover")
  /\ discoverCall' = Append(discoverCall,
        [namespace |-> cfg.PluginNamespace, searchPath |-> cfg.PluginSearchPath,
         selections |-> cfg.PluginSelections, advertiseAddress |-> cfg.AdvertiseAddress])
  /\ \/ /\ in.discovery.err = NoErr
        /\ plugins' = in.discovery.plugins
        /\ pc' = "validate"
        /\ UNCHANGED ret
     \/ /\ in.discovery.err # NoErr
        /\ Return(CfgPtr, in.discovery.err)
        /\ UNCHANGED plugins
  /\ UNCHANGED <<in, viper, cfg, i, j, client>>

(* variant: a selection that is not found does not end the loop *)
ValidateStepNoFail ==
  /\ pc = "validate"
  /\ i <= Len(cfg.PluginSelections)
  /\ stages' = IF i = 1 THEN Append(stages, "validate") ELSE stages
  /\ i' = i + 1
  /\ UNCHANGED <<pc, ret, in, viper, cfg, plugins, j, discoverCall, client>>

(* lines 133-144: one iteration of the loop over the selections *)
ValidateStep ==
  /\ pc = "validate"
  /\ i <= Len(cfg.PluginSelections)
  /\ stages' = IF i = 1 THEN Append(stages, "validate") ELSE stages
  /\ \/ /\ Found(plugins, cfg.PluginSelections[i])
        /\ i' = i + 1
        /\ UNCHANGED <<pc, ret>>
     \/ /\ ~Found(plugins, cfg.PluginSelections[i])
        /\ Return(CfgPtr, PluginNotFoundErr(cfg.PluginSelections[i].Name))
        /\ UNCHANGED i
  /\ UNCHANGED <<in, viper, cfg, plugins, j, discoverCall, client>>

(* line 144: the loop over the selections ends *)
ValidateDone ==
  /\ pc = "validate"
  /\ i > Len(cfg.PluginSelections)
  /\ stages' = IF i = 1 THEN Append(stages, "validate") ELSE stages
  /\ pc' = "addPlugins"
  /\ UNCHANGED <<in, viper, cfg, plugins, i, j, ret, discoverCall, client>>

(* variant: only the plugins that were selected are registered *)
AddPluginStepSelectedOnly ==
  /\ pc = "addPlugins"
  /\ j <= Len(plugins)
  /\ stages' = IF j = 1 THEN Append(stages, "register") ELSE stages
  /\ cfg' = IF \E k \in 1..Len(cfg.PluginSelections) :
                  cfg.PluginSelections[k].Name = GetName(plugins[j])
              THEN addPlugin(cfg, plugins[j]) ELSE cfg
  /\ j' = j + 1
  /\ UNCHANGED <<pc, in, viper, plugins, i, ret, discoverCall, client>>

(* lines 146-148: one iteration of the loop over the discovered plugins *)
AddPluginStep ==
  /\ pc = "addPlugins"
  /\ j <= Len(plugins)
  /\ stages' = IF j = 1 THEN Append(stages, "register") ELSE stages
  /\ cfg' = addPlugin(cfg, plugins[j])
  /\ j' = j + 1
  /\ UNCHANGED <<pc, in, viper, plugins, i, ret, discoverCall, client>>

(* lines 150, 92 *)
ReturnOk ==
  /\ pc = "addPlugins"
  /\ j > Len(plugins)
  /\ Return(CfgPtr, NoErr)
  /\ UNCHANGED <<in, viper, cfg, plugins, i, j, stages, discoverCall, client>>

(* lines 96-119, called with the Configuration of a successful LoadConfig; *)
(* building the client configuration and the clientset may each fail       *)
LoadClient ==
  /\ pc = "returned"
  /\ ret.err = NoErr
  /\ cfg' = IF Len(GetStringKubeconfig(viper, in.env)) > 0
              THEN [cfg EXCEPT !.Kubeconfig = GetStringKubeconfig(viper, in.env)]
              ELSE cfg
  /\ client' \in {"clientset", "ClusterClientError"}
  /\ pc' = "clientLoaded"
  /\ UNCHANGED <<in, viper, plugins, i, j, ret, stages, discoverCall>>

Next ==
  \/ ReadInConfig
  \/ Unmarshal
  \/ Advertise
  \/ Settings
  \/ Discover
  \/ ValidateStep
  \/ ValidateDone
  \/ AddPluginStep
  \/ ReturnOk
  \/ LoadClient

Spec == Init /\ [][Next]_vars

(***************************** vocabulary of the claims *********************)
Returned == pc \in {"returned", "clientLoaded"}
Resolved == Returned /\ ret.err = NoErr

(* the raw document, once it has been read *)
Doc == viper.config
DocRead == Len(stages) >= 1 /\ ReadInConfigOk(viper, in.files)
DocParsed == Len(stages) >= 2 /\ DocRead /\ UnmarshalOk(viper)

(* discovery has answered with a list of plugins *)
Discovered == discoverCall # <<>> /\ in.discovery.err = NoErr

Matched(sel) == \E k \in 1..Len(in.discovery.plugins) : in.discovery.plugins[k].name = sel.Name
UnmatchedIdx == {k \in 1..Len(cfg.PluginSelections) : ~Matched(cfg.PluginSelections[k])}
FirstUnmatched == CHOOSE k \in UnmatchedIdx : \A m \in UnmatchedIdx : k <= m

(***************************** C1 ******************************************)
(* C1: after LoadConfig has resolved successfully, resourceList is exactly *)
(* the document's list when the document defines the Resources key (an     *)
(* empty list included) and exactly the default list when it omits the     *)
(* key; it is never a union or an overlay of the two.                      *)
C1_ResourcesReplacedWholesale ==
  Resolved =>
    cfg.Resources = IF "Resources" \in DOMAIN Doc THEN Doc["Resources"]
                    ELSE in.defaultResources

C1_Witness ==
  /\ Resolved
  /\ "Resources" \in DOMAIN Doc
  /\ Doc["Resources"] = <<>>
  /\ in.defaultResources = <<"pods", "nodes">>
  /\ cfg.Resources = <<>>

(***************************** C2 ******************************************)
(* C2: when some selection has no discovered plugin of exactly the same    *)
(* name, validation fails with the plugin-not-found error naming the first *)
(* such selection in the order of the selections; the loop never goes past *)
(* that selection and validation does not succeed.                         *)
C2_FirstUnmatchedReported ==
  (Discovered /\ UnmatchedIdx # {}) =>
    /\ i <= FirstUnmatched
    /\ pc \in {"validate", "returned"}
    /\ pc = "returned" =>
         /\ i = FirstUnmatched
         /\ ret.err = "Configured plugin "
                        \o cfg.PluginSelections[FirstUnmatched].Name
                        \o " does not exist"

C2_Witness ==
  /\ pc = "returned"
  /\ cfg.PluginSelections = <<[Name |-> "a"], [Name |-> "b"]>>
  /\ plugins = <<[name |-> "a"]>>
  /\ ret.err = "Configured plugin b does not exist"

C2_WitnessCase ==
  /\ pc = "returned"
  /\ cfg.PluginSelections = <<[Name |-> "A"], [Name |-> "b"]>>
  /\ plugins = <<[name |-> "a"], [name |-> "c"]>>
  /\ ret.err = "Configured plugin A does not exist"
  /\ i = 1

(***************************** C3 ******************************************)
(* C3: when every selection is matched by a discovered plugin (an empty    *)
(* selection list included), validation succeeds and loadedPlugins then    *)
(* holds every discovered handle under its name, selected or not.          *)
C3_AllDiscoveredRegistered ==
  (Discovered /\ UnmatchedIdx = {} /\ Returned) =>
    /\ ret.err = NoErr
    /\ \A k \in 1..Len(in.discovery.plugins) :
         /\ in.discovery.plugins[k] \in cfg.LoadedPlugins
         /\ \A q \in cfg.LoadedPlugins :
              q.name = in.discovery.plugins[k].name => q = in.discovery.plugins[k]

C3_Witness ==
  /\ Resolved
  /\ cfg.PluginSelections = <<[Name |-> "a"]>>
  /\ plugins = <<[name |-> "a"], [name |-> "c"]>>
  /\ cfg.LoadedPlugins = {[name |-> "a"], [name |-> "c"]}

(***************************** C4 ******************************************)
(* C4: a plugin handle is in loadedPlugins only once validation has        *)
(* succeeded: before that, and whenever discovery fails or a selection is  *)
(* unmatched, loadedPlugins is as the defaults left it, empty.             *)
C4_LoadedOnlyAfterValidation ==
  /\ cfg.LoadedPlugins # {} =>
       /\ pc \in {"addPlugins", "returned", "clientLoaded"}
       /\ Discovered
       /\ UnmatchedIdx = {}
       /\ ret.err = NoErr
  /\ ret.err # NoErr => cfg.LoadedPlugins = {}

C4_Witness ==
  /\ pc = "returned"
  /\ ret.err = "Configured plugin b does not exist"
  /\ plugins = <<[name |-> "a"], [name |-> "c"]>>
  /\ cfg.PluginSelections = <<[Name |-> "a"], [Name |-> "b"]>>
  /\ cfg.LoadedPlugins = {}

(***************************** C5 ******************************************)
(* C5: whenever LoadConfig returns an error it hands the caller no         *)
(* Configuration value.                                                    *)
C5_ErrorMeansNoConfiguration ==
  (pc = "returned" /\ ret.err # NoErr) => ret.cfg = NilCfg

(***************************** C6 ******************************************)
(* the address has been derived (step 3 has run) *)
AddressDerived == Len(stages) >= 3

ConfiguredPort == IF "BindPort" \in DOMAIN Doc THEN Doc["BindPort"].v ELSE DefaultBindPort

DerivedAddress ==
  IF "SONOBUOY_ADVERTISE_IP" \in DOMAIN in.env
    THEN in.env["SONOBUOY_ADVERTISE_IP"] \o ":" \o ToString(ConfiguredPort)
    ELSE IF in.hostname # ""
           THEN in.hostname \o ":" \o ToString(ConfiguredPort)
           ELSE ""

(* C6 as stated: an advertiseAddress the document sets explicitly is kept  *)
(* unchanged, whatever its value; otherwise the host is the advertise-IP   *)
(* variable if present, else the hostname if resolvable, the address is    *)
(* "{host}:{port}", and it is empty when there is neither.                 *)
C6_AsStated ==
  AddressDerived =>
    cfg.AdvertiseAddress = IF "AdvertiseAddress" \in DOMAIN Doc
                             THEN Doc["AdvertiseAddress"]
                             ELSE DerivedAddress

(* C6 (amended): an advertiseAddress the document sets to a non-empty      *)
(* string is kept unchanged; when the document omits the key or sets it to *)
(* the empty string, the host is the advertise-IP variable if present,     *)
(* else the hostname if resolvable, the address is "{host}:{port}" with    *)
(* the configured bind port, and it is empty when there is neither.        *)
C6_AdvertiseAddressDerivation ==
  AddressDerived =>
    cfg.AdvertiseAddress = IF "AdvertiseAddress" \in DOMAIN Doc /\ Doc["AdvertiseAddress"] # ""
                             THEN Doc["AdvertiseAddress"]
                             ELSE DerivedAddress

C6_Witness ==
  /\ Resolved
  /\ "AdvertiseAddress" \notin DOMAIN Doc
  /\ "BindPort" \notin DOMAIN Doc
  /\ "SONOBUOY_ADVERTISE_IP" \in DOMAIN in.env
  /\ in.env["SONOBUOY_ADVERTISE_IP"] = "10.0.0.5"
  /\ in.hostname = "node1"
  /\ cfg.AdvertiseAddress = "10.0.0.5:8080"

C6_WitnessNoHost ==
  /\ Resolved
  /\ "AdvertiseAddress" \notin DOMAIN Doc
  /\ "SONOBUOY_ADVERTISE_IP" \notin DOMAIN in.env
  /\ in.hostname = ""
  /\ cfg.AdvertiseAddress = ""

(***************************** C7 ******************************************)
Layered(envKey, envCounts, docKey, default) ==
  IF envKey \in DOMAIN in.env /\ envCounts THEN in.env[envKey]
  ELSE IF docKey \in DOMAIN Doc THEN Doc[docKey]
  ELSE default

(* C7 as stated: in the Configuration of a successful LoadConfig,          *)
(* kubeconfigPath and resultsDirectory each equal the environment variable *)
(* when it is set, else the document's value, else the default.            *)
C7_AsStated ==
  Resolved =>
    /\ cfg.Kubeconfig = Layered("KUBECONFIG", TRUE, "Kubeconfig", "")
    /\ cfg.ResultsDir = Layered("RESULTS_DIR", TRUE, "ResultsDir", DefaultResultsDir)

(* C7 (amended): resultsDirectory equals the environment variable whenever *)
(* it is present (even empty), else the document's value, else the         *)
(* default; kubeconfigPath equals the environment variable when it is set  *)
(* to a non-empty value (an empty one counts as unset), else the           *)
(* document's value, else the default.                                     *)
C7_MergePrecedence ==
  Resolved =>
    /\ cfg.Kubeconfig = Layered("KUBECONFIG", Getenv(in.env, "KUBECONFIG") # "", "Kubeconfig", "")
    /\ cfg.ResultsDir = Layered("RESULTS_DIR", TRUE, "ResultsDir", DefaultResultsDir)

C7_Witness ==
  /\ Resolved
  /\ "ResultsDir" \in DOMAIN Doc
  /\ "Kubeconfig" \in DOMAIN Doc
  /\ Getenv(in.env, "RESULTS_DIR") = "/env/results"
  /\ Getenv(in.env, "KUBECONFIG") = "/env/kubeconfig"
  /\ cfg.ResultsDir = "/env/results"
  /\ cfg.Kubeconfig = "/env/kubeconfig"

C7_WitnessDocument ==
  /\ Resolved
  /\ DOMAIN in.env \cap {"RESULTS_DIR", "KUBECONFIG"} = {}
  /\ cfg.ResultsDir = "/doc/results"
  /\ cfg.Kubeconfig = "/doc/kubeconfig"

(***************************** C8 ******************************************)
(* C8: in every Configuration LoadConfig hands out, version is the build   *)
(* version, whatever the defaults, the document (even one that sets        *)
(* Version) and the environment say.                                       *)
C8_VersionFromBuild ==
  (Returned /\ ret.cfg # NilCfg) => cfg.Version = in.buildVersion

C8_Witness ==
  /\ Resolved
  /\ "Version" \in DOMAIN Doc
  /\ Doc["Version"] = "v-from-document"
  /\ in.buildVersion = "v0.10.0"
  /\ cfg.Version = "v0.10.0"

(***************************** C9 ******************************************)
ExpectedErr ==
  IF ~ReadInConfigOk(viper, in.files) THEN "ConfigReadError"
  ELSE IF "BindPort" \in DOMAIN Doc /\ Doc["BindPort"].t # "number" THEN "ConfigParseError"
  ELSE IF in.discovery.err # NoErr THEN in.discovery.err
  ELSE IF UnmatchedIdx # {}
         THEN "Configured plugin " \o cfg.PluginSelections[FirstUnmatched].Name
                \o " does not exist"
  ELSE NoErr

ExpectedStages ==
  IF ExpectedErr = "ConfigReadError" THEN SubSeq(StageOrder, 1, 1)
  ELSE IF ExpectedErr = "ConfigParseError" THEN SubSeq(StageOrder, 1, 2)
  ELSE IF in.discovery.err # NoErr THEN SubSeq(StageOrder, 1, 5)
  ELSE IF ExpectedErr # NoErr \/ in.discovery.plugins = <<>> THEN SubSeq(StageOrder, 1, 6)
  ELSE StageOrder

(* C9: the stages run in the order read, unmarshal, derive the address,    *)
(* apply the other settings, discover, validate, register, each at most    *)
(* once; LoadConfig returns the error of the first stage that fails, as    *)
(* that stage gave it, and no stage runs after a failure; discovery is     *)
(* called at most once, never after a failed read or parse, and with the   *)
(* advertise address already derived.                                      *)
C9_StagesInOrderFailFast ==
  /\ IsPrefix(stages, StageOrder)
  /\ Len(discoverCall) <= 1
  /\ discoverCall # <<>> =>
       /\ DocParsed
       /\ Len(stages) >= 5
       /\ discoverCall[1].advertiseAddress = cfg.AdvertiseAddress
       /\ discoverCall[1].selections = cfg.PluginSelections
  /\ Returned =>
       /\ ret.err = ExpectedErr
       /\ stages = ExpectedStages

C9_Witness ==
  /\ pc = "returned"
  /\ ret.err = "ConfigParseError"
  /\ stages = <<"read", "unmarshal">>
  /\ discoverCall = <<>>

C9_WitnessDiscovery ==
  /\ pc = "returned"
  /\ ret.err = "DiscoveryError"
  /\ Len(discoverCall) = 1
  /\ discoverCall[1].advertiseAddress = "10.0.0.5:9090"

(***************************** C10 *****************************************)
(* C10: when the document does not set advertiseAddress, the resolved      *)
(* address is empty or "{host}:{port}" with a non-empty host, also when    *)
(* the advertise-IP variable is present but empty: it is never ":{port}".  *)
C10_NoBarePortAddress ==
  (AddressDerived /\ "AdvertiseAddress" \notin DOMAIN Doc) =>
    \/ cfg.AdvertiseAddress = ""
    \/ \E host \in {Getenv(in.env, "SONOBUOY_ADVERTISE_IP"), in.hostname} \ {""} :
         cfg.AdvertiseAddress = host \o ":" \o ToString(ConfiguredPort)

====
